---- MODULE Spec2Model ----
(***************************************************************************)
(* Model of the two scripts of the repository:                             *)
(*   Problem_1_CayleyTree.py  - generate_cayley_tree(k, P)                 *)
(*   Problem_2_AirTraffic.py  - build_graph and the queries q2 .. q7       *)
(* SpecTree runs generate_cayley_tree, Spec runs build_graph on a pair of  *)
(* input files and then one query on the graph it returned.                *)
(***************************************************************************)
EXTENDS Integers, Sequences, FiniteSets, TLC

VARIABLES
    \* ---- Problem 1: generate_cayley_tree ----
    k, P,               \* the arguments
    tree,               \* G: [nodes, level, edges]
    current_level, new_level, next_node,
    d,                  \* outer loop variable (0 before the first iteration)
    node_i,             \* position of the loop over current_level
    child_i,            \* position of the loop over range(children_count)
    children_count,
    tpc,                \* control point inside generate_cayley_tree
    \* ---- Problem 2: build_graph and the queries ----
    cities_file, network_file,  \* the two input files, as sequences of lines
    G,                  \* the nx.Graph: [nodes, attr, adj]
    pc,                 \* "cities", "network", "built", "done" ("idle" in SpecTree)
    lineno,             \* index of the next line of the file being read
    line,               \* the line read last (before strip)
    op,                 \* what build_graph did with it
    query,              \* the query that ran on G
    out,                \* what the query printed
    exc,                \* the exception that left the query, or "none"
    num_components, largest_cc_nodeset, largest_cc_num_nodes, largest_cc_num_edges,
    items,              \* the (node, metric) list before sorting
    top_10,
    diameter, p0, p1, candidates,
    start_node, end_node, path_nodes

treeVars == <<k, P, tree, current_level, new_level, next_node, d, node_i,
              child_i, children_count, tpc>>

netVars == <<cities_file, network_file, G, pc, lineno, line, op, query, out, exc,
             num_components, largest_cc_nodeset, largest_cc_num_nodes,
             largest_cc_num_edges, items, top_10, diameter, p0, p1, candidates,
             start_node, end_node, path_nodes>>

resultVars == <<out, exc, num_components, largest_cc_nodeset, largest_cc_num_nodes,
                largest_cc_num_edges, items, top_10, diameter, p0, p1, candidates,
                start_node, end_node, path_nodes>>

vars == <<treeVars, netVars>>

\* ---------------------------------------------------------------------------
\* Bounds
MaxK == 3
MaxP == 3

\* ---------------------------------------------------------------------------
\* Values of variables that the program has not assigned
None  == <<"None">>     \* Python's None (no node identifier has this shape)
Unset == -1             \* a local integer that is not bound yet

EmptyGraph == [nodes |-> <<>>, attr |-> <<>>, adj |-> <<>>]

\* the query results before any query ran
ResultsInit ==
    /\ out = <<>>
    /\ exc = "none"
    /\ num_components = Unset
    /\ largest_cc_nodeset = {}
    /\ largest_cc_num_nodes = Unset
    /\ largest_cc_num_edges = Unset
    /\ items = <<>>
    /\ top_10 = <<>>
    /\ diameter = Unset
    /\ p0 = None
    /\ p1 = None
    /\ candidates = {}
    /\ start_node = None
    /\ end_node = None
    /\ path_nodes = <<>>

\* Problem 2 does not run in SpecTree
NetIdle ==
    /\ cities_file = <<>>
    /\ network_file = <<>>
    /\ G = EmptyGraph
    /\ pc = "idle"
    /\ lineno = 0
    /\ line = <<>>
    /\ op = "none"
    /\ query = "none"
    /\ ResultsInit

\* ---------------------------------------------------------------------------
\* Generic helpers
RECURSIVE SumSeq(_)
SumSeq(s) == IF s = <<>> THEN 0 ELSE Head(s) + SumSeq(Tail(s))

RECURSIVE Pow(_, _)
Pow(b, e) == IF e = 0 THEN 1 ELSE b * Pow(b, e - 1)

Range(s) == {s[i] : i \in 1..Len(s)}

\* ===========================================================================
\* Problem 1: generate_cayley_tree
\* ===========================================================================

\* G = nx.Graph(); G.add_node(0, level=0)
EmptyTree == [nodes |-> {}, level |-> <<>>, edges |-> {}]

TreeAddNode(T, n, lvl) ==
    [T EXCEPT !.nodes = @ \cup {n},
              !.level = [x \in T.nodes \cup {n} |->
                            IF x = n THEN lvl ELSE T.level[x]]]

\* G.add_edge(u, v) on an undirected nx.Graph
TreeAddEdge(T, u, v) == [T EXCEPT !.edges = @ \cup {{u, v}}]

\* children_count = k if G.nodes[node]['level'] == 0 else k - 1
ChildrenCountAlwaysK(kk, lvl) == kk
ChildrenCount(kk, lvl) == IF lvl = 0 THEN kk ELSE kk - 1

\* the body of the innermost loop: add_node(next_node, level=d); add_edge(node, next_node)
InsertChildAtRoot(T, parent, child, lvl) ==
    TreeAddEdge(TreeAddNode(T, child, lvl), 0, child)
InsertChild(T, parent, child, lvl) ==
    TreeAddEdge(TreeAddNode(T, child, lvl), parent, child)

\* next_node += 1
NextIdSkipping(n) == n + 2
NextId(n) == n + 1

TreeInit ==
    /\ k \in 2..MaxK
    /\ P \in 0..MaxP
    /\ tree = TreeAddNode(EmptyTree, 0, 0)
    /\ current_level = <<0>>
    /\ new_level = <<>>
    /\ next_node = 1
    /\ d = 0
    /\ node_i = 0
    /\ child_i = 0
    /\ children_count = 0
    /\ tpc = "for_d"
    /\ NetIdle

\* for d in range(1, P + 1): new_level = []
ForLevel ==
    /\ tpc = "for_d"
    /\ d < P
    /\ d' = d + 1
    /\ new_level' = <<>>
    /\ node_i' = 0
    /\ tpc' = "for_node"
    /\ UNCHANGED <<netVars, k, P, tree, current_level, next_node, child_i, children_count>>

\* for node in current_level: children_count = ...
ForNode ==
    /\ tpc = "for_node"
    /\ node_i < Len(current_level)
    /\ node_i' = node_i + 1
    /\ children_count' = ChildrenCount(k, tree.level[current_level[node_i + 1]])
    /\ child_i' = 0
    /\ tpc' = "for_child"
    /\ UNCHANGED <<netVars, k, P, tree, current_level, new_level, next_node, d>>

\* one iteration of: for _ in range(children_count)
AddChild ==
    /\ tpc = "for_child"
    /\ child_i < children_count
    /\ tree' = InsertChild(tree, current_level[node_i], next_node, d)
    /\ new_level' = Append(new_level, next_node)
    /\ next_node' = NextId(next_node)
    /\ child_i' = child_i + 1
    /\ UNCHANGED <<netVars, k, P, current_level, d, node_i, children_count, tpc>>

\* range(children_count) exhausted
EndNode ==
    /\ tpc = "for_child"
    /\ child_i = children_count
    /\ tpc' = "for_node"
    /\ UNCHANGED <<netVars, k, P, tree, current_level, new_level, next_node, d, node_i,
                   child_i, children_count>>

\* current_level exhausted: current_level = new_level
EndLevel ==
    /\ tpc = "for_node"
    /\ node_i = Len(current_level)
    /\ current_level' = new_level
    /\ tpc' = "for_d"
    /\ UNCHANGED <<netVars, k, P, tree, new_level, next_node, d, node_i, child_i,
                   children_count>>

\* range(1, P + 1) exhausted: return G
ReturnTree ==
    /\ tpc = "for_d"
    /\ d = P
    /\ tpc' = "returned"
    /\ UNCHANGED <<netVars, k, P, tree, current_level, new_level, next_node, d, node_i,
                   child_i, children_count>>

TreeNext ==
    \/ ForLevel
    \/ ForNode
    \/ AddChild
    \/ EndNode
    \/ EndLevel
    \/ ReturnTree

SpecTree == TreeInit /\ [][TreeNext]_vars

\* ---------------------------------------------------------------------------
\* Graph notions used to state the properties of the tree
TreeNbrs(T, n) == {m \in T.nodes : {n, m} \in T.edges /\ m # n}

\* Breadth-first distances from src: the set of nodes first reached at each step
RECURSIVE TreeBFS(_, _, _, _, _)
TreeBFS(T, frontier, seen, dist, depth) ==
    IF frontier = {} THEN dist
    ELSE LET nxt == UNION {TreeNbrs(T, n) : n \in frontier} \ seen
         IN  TreeBFS(T, nxt, seen \cup nxt,
                     [x \in DOMAIN dist \cup nxt |->
                         IF x \in nxt THEN depth + 1 ELSE dist[x]],
                     depth + 1)

\* node -> edge distance from the root, defined on the nodes reachable from it
TreeDist(T) == TreeBFS(T, {0}, {0}, [x \in {0} |-> 0], 0)

\* children of n: its neighbours one level further from the root
TreeChildren(T, n) == {m \in TreeNbrs(T, n) : T.level[m] = T.level[n] + 1}

\* 1 + k * sum_{i=0}^{P-1} (k-1)^i
CayleySize(kk, PP) == 1 + kk * SumSeq([i \in 1..PP |-> Pow(kk - 1, i - 1)])

\* ===========================================================================
\* Problem 2: build_graph
\* ===========================================================================
\* A string is a sequence of one-character strings; a file is a sequence of
\* lines, each as the file iterator yields it (with its line terminator).

\* the characters str.strip() and str.split() treat as white space
WS == {" ", "\t", "\n", "\r"}

RECURSIVE LStrip(_)
LStrip(s) == IF s # <<>> /\ Head(s) \in WS THEN LStrip(Tail(s)) ELSE s

RECURSIVE RStrip(_)
RStrip(s) == IF s # <<>> /\ s[Len(s)] \in WS
             THEN RStrip(SubSeq(s, 1, Len(s) - 1)) ELSE s

\* line.strip()
Strip(s) == LStrip(RStrip(s))

\* s.split(sep): the fields between the occurrences of sep, empty ones kept
RECURSIVE SplitAcc(_, _, _, _)
SplitAcc(s, sep, cur, acc) ==
    IF s = <<>> THEN Append(acc, cur)
    ELSE IF Head(s) = sep
         THEN SplitAcc(Tail(s), sep, <<>>, Append(acc, cur))
         ELSE SplitAcc(Tail(s), sep, Append(cur, Head(s)), acc)

SplitOn(s, sep) == SplitAcc(s, sep, <<>>, <<>>)

\* s.split(): the maximal runs of non-white-space characters
RECURSIVE SplitWSAcc(_, _, _)
SplitWSAcc(s, cur, acc) ==
    IF s = <<>> THEN (IF cur = <<>> THEN acc ELSE Append(acc, cur))
    ELSE IF Head(s) \in WS
         THEN SplitWSAcc(Tail(s), <<>>, IF cur = <<>> THEN acc ELSE Append(acc, cur))
         ELSE SplitWSAcc(Tail(s), Append(cur, Head(s)), acc)

SplitWS(s) == SplitWSAcc(s, <<>>, <<>>)

\* if len(parts) == 3 (city file)
IsCityRecordAtLeast3(parts) == Len(parts) >= 3
IsCityRecord(parts) == Len(parts) = 3

\* if len(parts) == 2 (network file)
IsEdgeRecord(parts) == Len(parts) = 2

\* ---------------------------------------------------------------------------
\* nx.Graph: nodes in insertion order, one attribute dict and one neighbour
\* set per node
Nodes(g) == Range(g.nodes)

EmptyDict == [a \in {} |-> <<>>]

\* the keyword arguments code=..., city=...
CodeCity(code, city) ==
    [a \in {"code", "city"} |-> IF a = "code" THEN code ELSE city]

\* dict.update
DictUpdate(old, new) ==
    [a \in DOMAIN old \cup DOMAIN new |-> IF a \in DOMAIN new THEN new[a] ELSE old[a]]

\* G.add_node(n, **attrs): a new node is appended, an existing one keeps its
\* place and has its attributes updated
AddNode(g, n, attrs) ==
    IF n \in Nodes(g)
    THEN [g EXCEPT !.attr = [x \in Nodes(g) |->
                                IF x = n THEN DictUpdate(g.attr[x], attrs)
                                ELSE g.attr[x]]]
    ELSE [nodes |-> Append(g.nodes, n),
          attr  |-> [x \in Nodes(g) \cup {n} |-> IF x = n THEN attrs ELSE g.attr[x]],
          adj   |-> [x \in Nodes(g) \cup {n} |-> IF x = n THEN {} ELSE g.adj[x]]]

\* G.add_edge(u, v): missing endpoints are created without attributes, then
\* each endpoint is entered in the other's neighbour dict
AddEdge(g, u, v) ==
    LET g1 == IF u \in Nodes(g) THEN g ELSE AddNode(g, u, EmptyDict)
        g2 == IF v \in Nodes(g1) THEN g1 ELSE AddNode(g1, v, EmptyDict)
    IN  [g2 EXCEPT !.adj = [x \in Nodes(g2) |->
                               (IF x = u THEN g2.adj[x] \cup {v} ELSE g2.adj[x])
                               \cup (IF x = v THEN {u} ELSE {})]]

\* G.degree: a self-loop counts twice
Degree(g, n) == Cardinality(g.adj[n]) + (IF n \in g.adj[n] THEN 1 ELSE 0)

NumberOfNodes(g) == Len(g.nodes)

\* G.number_of_edges(): half the sum of the degrees
NumberOfEdges(g) == SumSeq([i \in 1..Len(g.nodes) |-> Degree(g, g.nodes[i])]) \div 2

\* G.subgraph(S).number_of_edges()
SubgraphEdges(g, S) ==
    SumSeq([i \in 1..Len(g.nodes) |->
              IF g.nodes[i] \in S
              THEN Cardinality(g.adj[g.nodes[i]] \cap S)
                   + (IF g.nodes[i] \in g.adj[g.nodes[i]] THEN 1 ELSE 0)
              ELSE 0]) \div 2

\* ---------------------------------------------------------------------------
\* The two loops of build_graph, one line per step

\* the effect of one city-file line on G, with the call that was made
CityLine(g, ln) ==
    LET stripped == Strip(ln)
        parts    == SplitOn(stripped, "|")
    IN  IF stripped = <<>> THEN [G |-> g, op |-> "blank"]
        ELSE IF IsCityRecord(parts)
             THEN [G  |-> AddNode(g, parts[2], CodeCity(parts[1], parts[3])),
                   op |-> "add_node"]
             ELSE [G |-> g, op |-> "skip"]

\* the effect of one network-file line on G
NetLine(g, ln) ==
    LET stripped == Strip(ln)
        parts    == SplitWS(stripped)
    IN  IF stripped = <<>> THEN [G |-> g, op |-> "blank"]
        ELSE IF IsEdgeRecord(parts)
             THEN [G |-> AddEdge(g, parts[1], parts[2]), op |-> "add_edge"]
             ELSE [G |-> g, op |-> "skip"]

ReadCityLine ==
    /\ pc = "cities"
    /\ lineno <= Len(cities_file)
    /\ LET r == CityLine(G, cities_file[lineno])
       IN  /\ G' = r.G
           /\ op' = r.op
    /\ line' = cities_file[lineno]
    /\ lineno' = lineno + 1
    /\ UNCHANGED <<treeVars, cities_file, network_file, pc, query, resultVars>>

\* the city file is exhausted: the network file is opened
OpenNetwork ==
    /\ pc = "cities"
    /\ lineno > Len(cities_file)
    /\ pc' = "network"
    /\ lineno' = 1
    /\ UNCHANGED <<treeVars, cities_file, network_file, G, line, op, query, resultVars>>

ReadNetLine ==
    /\ pc = "network"
    /\ lineno <= Len(network_file)
    /\ LET r == NetLine(G, network_file[lineno])
       IN  /\ G' = r.G
           /\ op' = r.op
    /\ line' = network_file[lineno]
    /\ lineno' = lineno + 1
    /\ UNCHANGED <<treeVars, cities_file, network_file, pc, query, resultVars>>

\* the network file is exhausted: return G
ReturnGraph ==
    /\ pc = "network"
    /\ lineno > Len(network_file)
    /\ pc' = "built"
    /\ UNCHANGED <<treeVars, cities_file, network_file, G, lineno, line, op, query,
                   resultVars>>

\* ===========================================================================
\* Problem 2: the graph-library calls the queries make
\* ===========================================================================
SetMax(S) == CHOOSE x \in S : \A y \in S : y <= x

RECURSIVE SumFn(_, _)
SumFn(f, S) == IF S = {} THEN 0
               ELSE LET x == CHOOSE y \in S : TRUE IN f[x] + SumFn(f, S \ {x})

RECURSIVE Gcd(_, _)
Gcd(a, b) == IF b = 0 THEN a ELSE Gcd(b, a % b)

RECURSIVE LcmSet(_)
LcmSet(S) == IF S = {} THEN 1
             ELSE LET x == CHOOSE y \in S : TRUE
                      l == LcmSet(S \ {x})
                  IN  (x * l) \div Gcd(x, l)

\* breadth-first search: node -> distance, on the nodes reachable from the start
RECURSIVE BFS(_, _, _, _)
BFS(g, frontier, dist, depth) ==
    IF frontier = {} THEN dist
    ELSE LET nxt == UNION {g.adj[n] : n \in frontier} \ DOMAIN dist
         IN  BFS(g, nxt,
                 [x \in DOMAIN dist \cup nxt |->
                     IF x \in nxt THEN depth + 1 ELSE dist[x]],
                 depth + 1)

\* nx.single_source_shortest_path_length(G, s)
Dist(g, s) == BFS(g, {s}, [x \in {s} |-> 0], 0)

\* nx.connected_components(G): one node set per component, in the order in
\* which G's node iteration first meets each component
RECURSIVE CCAcc(_, _, _, _)
CCAcc(g, i, seen, acc) ==
    IF i > Len(g.nodes) THEN acc
    ELSE IF g.nodes[i] \in seen THEN CCAcc(g, i + 1, seen, acc)
         ELSE LET c == DOMAIN Dist(g, g.nodes[i])
              IN  CCAcc(g, i + 1, seen \cup c, Append(acc, c))

ComponentsWithoutIsolated(g) ==
    LET all == CCAcc(g, 1, {}, <<>>)
    IN  SelectSeq(all, LAMBDA c : Cardinality(c) > 1)
ConnectedComponents(g) == CCAcc(g, 1, {}, <<>>)

\* max(components, key=len): the first component of maximal size
LargestCC(comps) ==
    comps[CHOOSE i \in 1..Len(comps) :
             /\ \A j \in 1..Len(comps) : Cardinality(comps[j]) <= Cardinality(comps[i])
             /\ \A j \in 1..(i - 1) : Cardinality(comps[j]) < Cardinality(comps[i])]

\* The node iteration orders of G.subgraph(S): the library walks G's nodes and
\* keeps those in S, unless S has fewer than half of G's nodes, in which case
\* it walks the set S itself, whose order is not determined.
SubgraphOrders(g, S) ==
    IF 2 * Cardinality(S) < Len(g.nodes)
    THEN {s \in [1..Cardinality(S) -> S] : \A i, j \in DOMAIN s : i # j => s[i] # s[j]}
    ELSE {SelectSeq(g.nodes, LAMBDA n : n \in S)}

\* nx.eccentricity of v in its (connected) component
Eccentricity(g, v) == LET dv == Dist(g, v) IN SetMax({dv[x] : x \in DOMAIN dv})

\* nx.diameter(G_largest)
Diameter(g, S) == SetMax({Eccentricity(g, v) : v \in S})

\* nx.periphery(G_largest): the nodes of eccentricity = diameter, in node order
Periphery(g, order) ==
    LET S == Range(order)
        dm == Diameter(g, S)
    IN  SelectSeq(order, LAMBDA v : Eccentricity(g, v) = dm)

\* p0 = periphery_nodes[0]
FirstNodeOfComponent(g, order) == order[1]
FirstPeriphery(g, order) == Periphery(g, order)[1]

\* the shortest paths from the source of dv (= Dist(g, source)) to t
RECURSIVE PathsTo(_, _, _)
PathsTo(g, dv, t) ==
    IF dv[t] = 0 THEN {<<t>>}
    ELSE UNION {{Append(p, t) : p \in PathsTo(g, dv, u)} :
                    u \in {u \in g.adj[t] : u \in DOMAIN dv /\ dv[u] = dv[t] - 1}}

\* the number of shortest paths from the source of dv to t
RECURSIVE NumPaths(_, _, _)
NumPaths(g, dv, t) ==
    IF dv[t] = 0 THEN 1
    ELSE LET preds == {u \in g.adj[t] : u \in DOMAIN dv /\ dv[u] = dv[t] - 1}
         IN  SumFn([u \in preds |-> NumPaths(g, dv, u)], preds)

\* nx.betweenness_centrality(G_largest): for each node v the sum over the
\* ordered pairs (s, t), s # v # t, of the fraction of shortest s-t paths
\* through v, divided by (n-1)(n-2) when n > 2.  The value is the exact
\* rational num/den, with one denominator for all nodes.
Betweenness(g, S) ==
    LET n     == Cardinality(S)
        dist  == [s \in S |-> Dist(g, s)]
        sigma == [s \in S |-> [t \in S |-> NumPaths(g, dist[s], t)]]
        lcm   == LcmSet({sigma[s][t] : s \in S, t \in S})
        pairs(v) == {st \in (S \ {v}) \X (S \ {v}) :
                        /\ st[1] # st[2]
                        /\ dist[st[1]][v] + dist[v][st[2]] = dist[st[1]][st[2]]}
        num(v) == SumFn([st \in pairs(v) |->
                            sigma[st[1]][v] * sigma[v][st[2]]
                                * (lcm \div sigma[st[1]][st[2]])], pairs(v))
        den   == IF n > 2 THEN lcm * (n - 1) * (n - 2) ELSE lcm
    IN  [v \in S |-> [num |-> num(v), den |-> den]]

\* the metric of one (node, value) entry, compared as a rational
ValueGE(a, b) == a.num * b.den >= b.num * a.den
ValueGT(a, b) == a.num * b.den >  b.num * a.den

\* list.sort(key=..., reverse=True) / sorted(..., reverse=True): a stable sort,
\* entries of equal key keep their original relative order
InsertDesc(sorted, x) ==
    LET smaller == {i \in 1..Len(sorted) : ValueGT(x, sorted[i])}
        pos     == IF smaller = {} THEN Len(sorted) + 1
                   ELSE CHOOSE i \in smaller : \A j \in smaller : i <= j
    IN  SubSeq(sorted, 1, pos - 1) \o <<x>> \o SubSeq(sorted, pos, Len(sorted))

InsertDescBeforeTies(sorted, x) ==
    LET notlarger == {i \in 1..Len(sorted) : ValueGE(x, sorted[i])}
        pos       == IF notlarger = {} THEN Len(sorted) + 1
                     ELSE CHOOSE i \in notlarger : \A j \in notlarger : i <= j
    IN  SubSeq(sorted, 1, pos - 1) \o <<x>> \o SubSeq(sorted, pos, Len(sorted))

RECURSIVE SortDescTiesReversed(_)
SortDescTiesReversed(s) ==
    IF s = <<>> THEN <<>>
    ELSE InsertDescBeforeTies(SortDescTiesReversed(SubSeq(s, 1, Len(s) - 1)), s[Len(s)])

RECURSIVE SortDesc(_)
SortDesc(s) ==
    IF s = <<>> THEN <<>>
    ELSE InsertDesc(SortDesc(SubSeq(s, 1, Len(s) - 1)), s[Len(s)])

\* the slice [:10]
TopN == 10
Top10(s) == SubSeq(s, 1, IF Len(s) < TopN THEN Len(s) ELSE TopN)

\* G.nodes[n]['city'] raises KeyError when n has no city attribute
HasCity(g, n) == "city" \in DOMAIN g.attr[n]

\* the loop that prints one row per entry: it stops at the first KeyError
PrintRows(g, header, rows) ==
    LET bad   == {i \in 1..Len(rows) : ~HasCity(g, rows[i].node)}
        first == IF bad = {} THEN Len(rows) + 1
                 ELSE CHOOSE i \in bad : \A j \in bad : i <= j
    IN  [out |-> header \o [i \in 1..(first - 1) |->
                               <<"row", g.attr[rows[i].node]["city"],
                                 rows[i].num, rows[i].den>>],
         exc |-> IF bad = {} THEN "none" ELSE "KeyError"]

\* ===========================================================================
\* Problem 2: the queries
\* ===========================================================================
CBR == <<"C", "B", "R">>
CPT == <<"C", "P", "T">>

\* attrs.get('code')
GetCode(g, n) == IF "code" \in DOMAIN g.attr[n] THEN g.attr[n]["code"] ELSE None

\* the loop over G.nodes(data=True) of solve_problem2_q6: no break, so each
\* later match overwrites the earlier one
RECURSIVE ScanCodes(_, _, _, _)
ScanCodes(g, i, s, e) ==
    IF i > Len(g.nodes) THEN [start |-> s, end |-> e]
    ELSE IF GetCode(g, g.nodes[i]) = CBR THEN ScanCodes(g, i + 1, g.nodes[i], e)
    ELSE IF GetCode(g, g.nodes[i]) = CPT THEN ScanCodes(g, i + 1, s, g.nodes[i])
    ELSE ScanCodes(g, i + 1, s, e)

RECURSIVE ScanCodesKeepFirst(_, _, _, _)
ScanCodesKeepFirst(g, i, s, e) ==
    IF i > Len(g.nodes) THEN [start |-> s, end |-> e]
    ELSE IF GetCode(g, g.nodes[i]) = CBR
         THEN ScanCodesKeepFirst(g, i + 1, IF s = None THEN g.nodes[i] ELSE s, e)
    ELSE IF GetCode(g, g.nodes[i]) = CPT
         THEN ScanCodesKeepFirst(g, i + 1, s, IF e = None THEN g.nodes[i] ELSE e)
    ELSE ScanCodesKeepFirst(g, i + 1, s, e)

FindCodesFirstMatch(g) == ScanCodesKeepFirst(g, 1, None, None)
FindCodes(g) == ScanCodes(g, 1, None, None)

MsgNoCode == "Could not find 'CBR' or 'CPT' in the graph. Check data or code attribute."
MsgNoPath == "No path found between Canberra (CBR) and Cape Town (CPT). They may be in different components."
MsgNoCandidate == "No node found at distance = diameter. Something unexpected occurred."

\* try: nx.shortest_path(...) except nx.NetworkXNoPath: print(...); return
OnNoPathUncaught == [out |-> <<>>, exc |-> "NetworkXNoPath"]
OnNoPath == [out |-> <<<<MsgNoPath>>>>, exc |-> "none"]

\* [G.nodes[n]['city'] for n in path_nodes]
PathCities(g, path) == [i \in 1..Len(path) |-> g.attr[path[i]]["city"]]

solve_problem2_q1 ==
    /\ pc = "built"
    /\ pc' = "done"
    /\ query' = "q1"
    /\ out' = <<<<"=== Problem2 (Q1) ===">>,
                <<"Number of nodes (undirected):", NumberOfNodes(G)>>,
                <<"Number of edges (undirected):", NumberOfEdges(G)>>>>
    /\ UNCHANGED <<treeVars, cities_file, network_file, G, lineno, line, op, exc,
                   num_components, largest_cc_nodeset, largest_cc_num_nodes,
                   largest_cc_num_edges, items, top_10, diameter, p0, p1,
                   candidates, start_node, end_node, path_nodes>>

solve_problem2_q2 ==
    /\ pc = "built"
    /\ pc' = "done"
    /\ query' = "q2"
    /\ LET comps == ConnectedComponents(G) IN
       /\ num_components' = Len(comps)
       /\ IF comps = <<>>
          THEN \* max() of an empty iterable
               /\ exc' = "ValueError"
               /\ UNCHANGED <<out, largest_cc_nodeset, largest_cc_num_nodes,
                              largest_cc_num_edges>>
          ELSE /\ largest_cc_nodeset' = LargestCC(comps)
               /\ largest_cc_num_nodes' = Cardinality(LargestCC(comps))
               /\ largest_cc_num_edges' = SubgraphEdges(G, LargestCC(comps))
               /\ out' = <<<<"=== Problem2 (Q2) ===">>,
                           <<"Number of connected components:", Len(comps)>>,
                           <<"Largest connected component:">>,
                           <<"   Nodes:", Cardinality(LargestCC(comps))>>,
                           <<"   Edges:", SubgraphEdges(G, LargestCC(comps))>>>>
               /\ exc' = "none"
    /\ UNCHANGED <<treeVars, cities_file, network_file, G, lineno, line, op,
                   items, top_10, diameter, p0, p1, candidates, start_node,
                   end_node, path_nodes>>

solve_problem2_q3 ==
    /\ pc = "built"
    /\ pc' = "done"
    /\ query' = "q3"
    /\ LET comps == ConnectedComponents(G) IN
       IF comps = <<>>
       THEN /\ exc' = "ValueError"
            /\ UNCHANGED <<out, largest_cc_nodeset, items, top_10>>
       ELSE \E order \in SubgraphOrders(G, LargestCC(comps)) :
            LET node_degree_pairs ==
                    [i \in 1..Len(order) |->
                        [node |-> order[i], num |-> Degree(G, order[i]), den |-> 1]]
                top     == Top10(SortDesc(node_degree_pairs))
                printed == PrintRows(G,
                               <<<<"=== Problem2 (Q3) ===">>,
                                 <<"Top 10 nodes in the largest component by degree:">>>>,
                               top)
            IN  /\ largest_cc_nodeset' = LargestCC(comps)
                /\ items' = node_degree_pairs
                /\ top_10' = top
                /\ out' = printed.out
                /\ exc' = printed.exc
    /\ UNCHANGED <<treeVars, cities_file, network_file, G, lineno, line, op,
                   num_components, largest_cc_num_nodes, largest_cc_num_edges,
                   diameter, p0, p1, candidates, start_node, end_node, path_nodes>>

solve_problem2_q5 ==
    /\ pc = "built"
    /\ pc' = "done"
    /\ query' = "q5"
    /\ LET comps == ConnectedComponents(G) IN
       IF comps = <<>>
       THEN /\ exc' = "ValueError"
            /\ UNCHANGED <<out, largest_cc_nodeset, diameter, p0, p1, candidates,
                           path_nodes>>
       ELSE \E order \in SubgraphOrders(G, LargestCC(comps)) :
            LET dm    == Diameter(G, LargestCC(comps))
                first == FirstPeriphery(G, order)
                dist_from_p0 == Dist(G, first)
                cands == {n \in DOMAIN dist_from_p0 : dist_from_p0[n] = dm}
            IN  /\ largest_cc_nodeset' = LargestCC(comps)
                /\ diameter' = dm
                /\ p0' = first
                /\ candidates' = cands
                /\ IF cands = {}
                   THEN /\ out' = <<<<MsgNoCandidate>>>>
                        /\ exc' = "none"
                        /\ UNCHANGED <<p1, path_nodes>>
                   ELSE \E c \in cands :
                        \E path \in PathsTo(G, dist_from_p0, c) :
                            /\ p1' = c
                            /\ path_nodes' = path
                            /\ IF \A i \in 1..Len(path) : HasCity(G, path[i])
                               THEN /\ out' = <<<<"=== Problem2 (Q5) ===">>,
                                                <<"Diameter of the giant component:", dm>>,
                                                <<"One longest shortest path between two cities (by city name):">>,
                                                <<"route", PathCities(G, path)>>>>
                                    /\ exc' = "none"
                               ELSE /\ out' = <<>>
                                    /\ exc' = "KeyError"
    /\ UNCHANGED <<treeVars, cities_file, network_file, G, lineno, line, op,
                   num_components, largest_cc_num_nodes, largest_cc_num_edges,
                   items, top_10, start_node, end_node>>

solve_problem2_q6 ==
    /\ pc = "built"
    /\ pc' = "done"
    /\ query' = "q6"
    /\ LET found == FindCodes(G) IN
       /\ start_node' = found.start
       /\ end_node' = found.end
       /\ IF found.start = None \/ found.end = None
          THEN /\ out' = <<<<MsgNoCode>>>>
               /\ exc' = "none"
               /\ UNCHANGED path_nodes
          ELSE LET dv == Dist(G, found.start) IN
               IF found.end \notin DOMAIN dv
               THEN /\ out' = OnNoPath.out
                    /\ exc' = OnNoPath.exc
                    /\ UNCHANGED path_nodes
               ELSE \E path \in PathsTo(G, dv, found.end) :
                    /\ path_nodes' = path
                    /\ IF \A i \in 1..Len(path) : HasCity(G, path[i])
                       THEN /\ out' = <<<<"=== Problem2 (Q6) ===">>,
                                        <<"Smallest number of flights from Canberra (CBR) to Cape Town (CPT):",
                                          Len(path) - 1>>,
                                        <<"Route (city/airport names only):">>,
                                        <<"route", PathCities(G, path)>>>>
                            /\ exc' = "none"
                       ELSE /\ out' = <<>>
                            /\ exc' = "KeyError"
    /\ UNCHANGED <<treeVars, cities_file, network_file, G, lineno, line, op,
                   num_components, largest_cc_nodeset, largest_cc_num_nodes,
                   largest_cc_num_edges, items, top_10, diameter, p0, p1, candidates>>

solve_problem2_q7 ==
    /\ pc = "built"
    /\ pc' = "done"
    /\ query' = "q7"
    /\ LET comps == ConnectedComponents(G) IN
       IF comps = <<>>
       THEN /\ exc' = "ValueError"
            /\ UNCHANGED <<out, largest_cc_nodeset, items, top_10>>
       ELSE \E order \in SubgraphOrders(G, LargestCC(comps)) :
            LET bc == Betweenness(G, LargestCC(comps))
                betweenness_items ==
                    [i \in 1..Len(order) |->
                        [node |-> order[i], num |-> bc[order[i]].num,
                         den |-> bc[order[i]].den]]
                top     == Top10(SortDesc(betweenness_items))
                printed == PrintRows(G,
                               <<<<"=== Problem2 (Q7) ===">>,
                                 <<"Top 10 airports/cities by betweenness (largest connected component):">>>>,
                               top)
            IN  /\ largest_cc_nodeset' = LargestCC(comps)
                /\ items' = betweenness_items
                /\ top_10' = top
                /\ out' = printed.out
                /\ exc' = printed.exc
    /\ UNCHANGED <<treeVars, cities_file, network_file, G, lineno, line, op,
                   num_components, largest_cc_num_nodes, largest_cc_num_edges,
                   diameter, p0, p1, candidates, start_node, end_node, path_nodes>>

\* ===========================================================================
\* Problem 2: the input files
\* ===========================================================================
MaxCityLines == 2
MaxNetLines == 2
MaxId == 3
MaxBig == 12

SeqsUpTo(S, n) == UNION {[1..m -> S] : m \in 0..n}

DigitChar == <<"0", "1", "2", "3", "4", "5", "6", "7", "8", "9">>

RECURSIVE Digits(_)
Digits(n) == IF n < 10 THEN <<DigitChar[n + 1]>>
             ELSE Digits(n \div 10) \o <<DigitChar[(n % 10) + 1]>>

CityRecordLine(code, id, city) == code \o <<"|">> \o id \o <<"|">> \o city \o <<"\n">>
EdgeLine(a, b) == Digits(a) \o <<" ">> \o Digits(b) \o <<"\n">>

\* (a) files made of well-formed and malformed lines
CityLineSet ==
    { <<"C", "B", "R", "|", "1", "|", "A", "\n">>,
      <<"C", "P", "T", "|", "2", "|", "B">>,
      <<" ", "X", "|", "0", "1", "|", "C", " ", "\n">>,
      <<"\n">>,
      <<" ", "\t", "\n">>,
      <<"X", "|", "1", "\n">>,
      <<"X", "|", "1", "|", "A", "|", "B", "\n">>,
      <<"|", "|", "\n">>,
      <<"C", "P", "T", "|", "1", "|", "D", "\n">> }

NetLineSet ==
    { <<"1", " ", "2", "\n">>,
      <<"2", " ", "1", "\n">>,
      <<"0", "1", " ", "2", "\n">>,
      <<" ", " ", "1", "\t", " ", "2", " ", " ", "\n">>,
      <<"1", "\n">>,
      <<"1", " ", "2", " ", "3", "\n">>,
      <<"\n">>,
      <<"1", " ", "1", "\n">>,
      <<"1", "|", "2", "\n">>,
      <<"3", " ", "4">> }

SmallCities ==
    << <<"C", "B", "R", "|", "1", "|", "A", "\n">>,
       <<"X", "|", "1", "\n">>,
       <<" ", "X", "|", "0", "1", "|", "C", " ", "\n">>,
       <<"C", "P", "T", "|", "2", "|", "B", "\n">> >>
SmallNetwork == <<<<"1", " ", "2", "\n">>, <<"0", "1", " ", "2", "\n">>>>

ParsingInputs ==
    (SeqsUpTo(CityLineSet, MaxCityLines) \X {<<>>, SmallNetwork})
    \cup ({<<>>, SmallCities} \X SeqsUpTo(NetLineSet, MaxNetLines))

\* (b) graphs on the identifiers 1 .. MaxId: every edge set with the first n
\* identifiers listed in the city file, and every assignment of codes to the
\* first n identifiers with the edges taken among i -- i+1
CodeSet == {CBR, CPT, <<"X">>}

CityFileOf(codes) ==
    [i \in 1..Len(codes) |-> CityRecordLine(codes[i], Digits(i), <<"c">> \o Digits(i))]

AllPairs == [i \in 1..(MaxId * MaxId) |-> <<((i - 1) \div MaxId) + 1, ((i - 1) % MaxId) + 1>>]

NetFileOf(E) ==
    LET chosen == SelectSeq(AllPairs, LAMBDA pr : pr \in E)
    IN  [i \in 1..Len(chosen) |-> EdgeLine(chosen[i][1], chosen[i][2])]

SmallGraphInputs ==
    ({CityFileOf([i \in 1..n |-> <<"X">>]) : n \in 0..MaxId}
        \X {NetFileOf(E) : E \in SUBSET {pr \in (1..MaxId) \X (1..MaxId) : pr[1] < pr[2]}})
    \cup
    ({CityFileOf(codes) : codes \in SeqsUpTo(CodeSet, MaxId)}
        \X {NetFileOf(E) : E \in SUBSET {pr \in (1..MaxId) \X (1..MaxId) : pr[2] = pr[1] + 1}})

\* (c) paths, stars, cycles and disjoint pairs on up to MaxBig nodes; node 1
\* is Canberra and the last node Cape Town
Shapes == {"path", "star", "cycle", "pairs"}

ShapeCities(n) ==
    [i \in 1..n |-> CityRecordLine(IF i = 1 THEN CBR ELSE IF i = n THEN CPT ELSE <<"X">>,
                                   Digits(i), <<"c">> \o Digits(i))]

ShapeNetwork(shape, n) ==
    CASE shape = "path"  -> [i \in 1..(n - 1) |-> EdgeLine(i, i + 1)]
      [] shape = "star"  -> [i \in 1..(n - 1) |-> EdgeLine(1, i + 1)]
      [] shape = "cycle" -> [i \in 1..n |-> EdgeLine(i, (i % n) + 1)]
      [] shape = "pairs" -> [i \in 1..(n \div 2) |-> EdgeLine(2 * i - 1, 2 * i)]

ShapeInputs ==
    {<<ShapeCities(n), ShapeNetwork(shape, n)>> : n \in 1..MaxBig, shape \in Shapes}

Inputs == ParsingInputs \cup SmallGraphInputs \cup ShapeInputs

\* Problem 1 does not run in Spec
TreeIdle ==
    /\ k = 2
    /\ P = 0
    /\ tree = TreeAddNode(EmptyTree, 0, 0)
    /\ current_level = <<0>>
    /\ new_level = <<>>
    /\ next_node = 1
    /\ d = 0
    /\ node_i = 0
    /\ child_i = 0
    /\ children_count = 0
    /\ tpc = "idle"

Init ==
    /\ \E input \in Inputs :
        /\ cities_file = input[1]
        /\ network_file = input[2]
    /\ G = EmptyGraph
    /\ pc = "cities"
    /\ lineno = 1
    /\ line = <<>>
    /\ op = "none"
    /\ query = "none"
    /\ ResultsInit
    /\ TreeIdle

Next ==
    \/ ReadCityLine
    \/ OpenNetwork
    \/ ReadNetLine
    \/ ReturnGraph
    \/ solve_problem2_q1
    \/ solve_problem2_q2
    \/ solve_problem2_q3
    \/ solve_problem2_q5
    \/ solve_problem2_q6
    \/ solve_problem2_q7

Spec == Init /\ [][Next]_vars

\* ===========================================================================
\* Properties of generate_cayley_tree (checked under SpecTree)
\* ===========================================================================

NonRootBelowP(T) == {n \in T.nodes : n # 0 /\ T.level[n] < P}
AtLevelP(T)      == {n \in T.nodes : T.level[n] = P}

InnerShape ==
    /\ \A n \in NonRootBelowP(tree) : Cardinality(TreeChildren(tree, n)) = k - 1
    /\ \A n \in AtLevelP(tree) : TreeChildren(tree, n) = {}
    /\ \A n \in tree.nodes : tree.level[n] <= P

\* C1 as stated: for every k >= 2 and P >= 0 the returned tree has a root with
\* exactly k children, every non-root node below level P has exactly k-1
\* children, and no node at level P has a child.
C1_AsStated ==
    tpc = "returned" =>
        /\ Cardinality(TreeChildren(tree, 0)) = k
        /\ InnerShape

\* C1 (amended): in the returned tree the root has exactly k children when
\* P >= 1 and none when P = 0 (the root is then itself at level P); every
\* non-root node below level P has exactly k-1 children, no node at level P
\* has a child and no node lies deeper than P.
C1_TreeShape ==
    tpc = "returned" =>
        /\ P >= 1 => Cardinality(TreeChildren(tree, 0)) = k
        /\ P = 0 => TreeChildren(tree, 0) = {}
        /\ InnerShape

C1_Witness ==
    /\ tpc = "returned"
    /\ P >= 2
    /\ k >= 3
    /\ NonRootBelowP(tree) # {}
    /\ AtLevelP(tree) # {}

\* C2: after every insertion next_node equals the number of nodes and the
\* identifiers are 0 .. next_node-1; the returned graph has
\* 1 + k * sum_{i<P} (k-1)^i nodes and one edge fewer than nodes.
C2_Counts ==
    /\ next_node = Cardinality(tree.nodes)
    /\ tree.nodes = 0..(next_node - 1)
    /\ tpc = "returned" =>
        /\ Cardinality(tree.nodes) = CayleySize(k, P)
        /\ Cardinality(tree.edges) = Cardinality(tree.nodes) - 1

C2_Witness ==
    /\ tpc = "returned"
    /\ k = 3
    /\ P = 2
    /\ Cardinality(tree.nodes) = 10
    /\ Cardinality(tree.edges) = 9

SetMin(S) == CHOOSE x \in S : \A y \in S : x <= y

\* positions of the nodes whose code attribute is c, in node iteration order
CodeMatches(g, c) == {i \in 1..Len(g.nodes) : GetCode(g, g.nodes[i]) = c}

\* C4 as stated: with several nodes of code "CBR" (or "CPT"), the start
\* (or end) node of solve_problem2_q6 is the first match in iteration order.
C4_AsStated ==
    query = "q6" =>
        /\ CodeMatches(G, CBR) # {} => start_node = G.nodes[SetMin(CodeMatches(G, CBR))]
        /\ CodeMatches(G, CPT) # {} => end_node = G.nodes[SetMin(CodeMatches(G, CPT))]

\* C4 (amended): the start (or end) node of solve_problem2_q6 is the last
\* node of code "CBR" (or "CPT") in iteration order, earlier matches being
\* overwritten; the shortest path, when there is one, runs between these two.
C4_LastMatch ==
    query = "q6" =>
        /\ start_node = IF CodeMatches(G, CBR) = {} THEN None
                        ELSE G.nodes[SetMax(CodeMatches(G, CBR))]
        /\ end_node = IF CodeMatches(G, CPT) = {} THEN None
                      ELSE G.nodes[SetMax(CodeMatches(G, CPT))]
        /\ path_nodes # <<>> =>
              /\ path_nodes[1] = start_node
              /\ path_nodes[Len(path_nodes)] = end_node

C4_Witness ==
    /\ query = "q6"
    /\ Cardinality(CodeMatches(G, CBR)) >= 2
    /\ Len(path_nodes) >= 2
    /\ path_nodes[1] = G.nodes[SetMax(CodeMatches(G, CBR))]
    /\ path_nodes[1] # G.nodes[SetMin(CodeMatches(G, CBR))]

InSameComponent(g, a, b) ==
    \E i \in 1..Len(ConnectedComponents(g)) : {a, b} \subseteq ConnectedComponents(g)[i]

Printed(label) == \E i \in 1..Len(out) : out[i][1] = label

\* C5: when no node has code "CBR", or none has code "CPT", or the two chosen
\* nodes lie in different components, solve_problem2_q6 raises nothing,
\* prints exactly one diagnostic message and neither the header nor a route.
C5_GracefulFailure ==
    query = "q6" =>
        /\ (CodeMatches(G, CBR) = {} \/ CodeMatches(G, CPT) = {}) =>
              /\ exc = "none"
              /\ out = <<<<MsgNoCode>>>>
              /\ path_nodes = <<>>
        /\ (/\ CodeMatches(G, CBR) # {}
            /\ CodeMatches(G, CPT) # {}
            /\ ~InSameComponent(G, start_node, end_node)) =>
              /\ exc = "none"
              /\ out = <<<<MsgNoPath>>>>
              /\ path_nodes = <<>>
        /\ (Printed(MsgNoCode) \/ Printed(MsgNoPath)) =>
              /\ Len(out) = 1
              /\ ~Printed("=== Problem2 (Q6) ===")
              /\ ~Printed("route")

C5_Witness ==
    /\ query = "q6"
    /\ start_node # None
    /\ end_node # None
    /\ ~InSameComponent(G, start_node, end_node)
    /\ out = <<<<MsgNoPath>>>>
    /\ exc = "none"

\* C6 as stated: for any graph build_graph can return, the empty one
\* included, solve_problem2_q2 computes a component count of at least 1 and
\* a largest-component node count of at most the number of nodes.
C6_AsStated ==
    query = "q2" =>
        /\ exc = "none"
        /\ num_components >= 1
        /\ largest_cc_num_nodes <= NumberOfNodes(G)

\* C6 (amended): for any graph with at least one node, solve_problem2_q2
\* computes a component count of at least 1 and reports a largest-component
\* node count between 1 and the number of nodes; on the graph without nodes
\* the count is 0 and the query ends in a ValueError before reporting.
C6_ComponentCounts ==
    query = "q2" =>
        /\ NumberOfNodes(G) >= 1 =>
              /\ exc = "none"
              /\ num_components >= 1
              /\ num_components <= NumberOfNodes(G)
              /\ largest_cc_num_nodes >= 1
              /\ largest_cc_num_nodes <= NumberOfNodes(G)
              /\ Printed("   Nodes:")
        /\ NumberOfNodes(G) = 0 =>
              /\ num_components = 0
              /\ exc = "ValueError"
              /\ out = <<>>

C6_Witness ==
    /\ query = "q2"
    /\ num_components >= 2
    /\ largest_cc_num_nodes >= 2
    /\ largest_cc_num_nodes < NumberOfNodes(G)

\* C7: on a graph with at least one node solve_problem2_q5 never reports
\* "No node found at distance = diameter": some node lies at distance
\* diameter from p0, and the path from p0 to p1 has diameter edges, all its
\* nodes in the largest component.
C7_DiameterPath ==
    (query = "q5" /\ NumberOfNodes(G) >= 1) =>
        /\ exc # "ValueError"
        /\ ~Printed(MsgNoCandidate)
        /\ candidates # {}
        /\ p1 \in candidates
        /\ Len(path_nodes) = diameter + 1
        /\ path_nodes[1] = p0
        /\ path_nodes[Len(path_nodes)] = p1
        /\ Range(path_nodes) \subseteq largest_cc_nodeset
        /\ \A i \in 1..(Len(path_nodes) - 1) : path_nodes[i + 1] \in G.adj[path_nodes[i]]
        /\ Cardinality(Range(path_nodes)) = Len(path_nodes)

C7_Witness ==
    /\ query = "q5"
    /\ diameter >= 2
    /\ exc = "none"
    /\ G.nodes[1] \in largest_cc_nodeset
    /\ p0 # G.nodes[1]
    /\ Len(path_nodes) = diameter + 1

\* the characterisation of the lines build_graph accepts, stated on the
\* characters of the line
Trimmed(ln) ==
    LET solid == {i \in 1..Len(ln) : ln[i] \notin WS}
    IN  IF solid = {} THEN <<>> ELSE SubSeq(ln, SetMin(solid), SetMax(solid))

Bars(s) == {i \in 1..Len(s) : s[i] = "|"}

ThreeFields(ln) == Trimmed(ln) # <<>> /\ Cardinality(Bars(Trimmed(ln))) = 2

FieldsOf(s) ==
    <<SubSeq(s, 1, SetMin(Bars(s)) - 1),
      SubSeq(s, SetMin(Bars(s)) + 1, SetMax(Bars(s)) - 1),
      SubSeq(s, SetMax(Bars(s)) + 1, Len(s))>>

TokenStarts(s) == {i \in 1..Len(s) : s[i] \notin WS /\ (i = 1 \/ s[i - 1] \in WS)}

TokenAt(s, i) ==
    SubSeq(s, i, SetMax({j \in i..Len(s) : \A m \in i..j : s[m] \notin WS}))

TwoTokens(ln) == Cardinality(TokenStarts(ln)) = 2

CityStepOK ==
    LET ln == cities_file[lineno] IN
    IF ThreeFields(ln)
    THEN LET f == FieldsOf(Trimmed(ln)) IN
         /\ op' = "add_node"
         /\ Nodes(G') = Nodes(G) \cup {f[2]}
         /\ Len(G'.nodes) = Cardinality(Nodes(G'))
         /\ SubSeq(G'.nodes, 1, Len(G.nodes)) = G.nodes
         /\ G'.attr[f[2]]["code"] = f[1]
         /\ G'.attr[f[2]]["city"] = f[3]
         /\ \A n \in Nodes(G) \ {f[2]} : G'.attr[n] = G.attr[n]
         /\ \A n \in Nodes(G') : G'.adj[n] = {}
    ELSE /\ G' = G
         /\ op' \in {"blank", "skip"}

NetStepOK ==
    LET ln == network_file[lineno] IN
    IF TwoTokens(ln)
    THEN LET t1 == TokenAt(ln, SetMin(TokenStarts(ln)))
             t2 == TokenAt(ln, SetMax(TokenStarts(ln)))
             known == /\ t1 \in Nodes(G)
                      /\ t2 \in Nodes(G)
                      /\ (t2 \in G.adj[t1] \/ t1 \in G.adj[t2])
         IN  /\ op' = "add_edge"
             /\ Nodes(G') = Nodes(G) \cup {t1, t2}
             /\ Len(G'.nodes) = Cardinality(Nodes(G) \cup {t1, t2})
             /\ SubSeq(G'.nodes, 1, Len(G.nodes)) = G.nodes
             /\ t2 \in G'.adj[t1]
             /\ t1 \in G'.adj[t2]
             /\ \A n \in Nodes(G) : G'.attr[n] = G.attr[n]
             /\ NumberOfEdges(G') = NumberOfEdges(G) + (IF known THEN 0 ELSE 1)
    ELSE /\ G' = G
         /\ op' \in {"blank", "skip"}

\* C8: a city-file line adds or re-attributes a node exactly when, stripped,
\* it is non-empty and has three '|'-separated fields; a network-file line
\* adds an undirected edge exactly when it has two white-space-separated
\* tokens; any other line leaves the graph unchanged; identifiers are
\* compared as strings, and a repeated or swapped edge line does not
\* increase the edge count.
C8_LineHandling ==
    [][/\ (pc = "cities" /\ lineno' = lineno + 1) => CityStepOK
       /\ (pc = "network" /\ lineno' = lineno + 1) => NetStepOK]_vars

C8_Witness ==
    /\ pc = "built"
    /\ \E i \in 1..Len(cities_file) :
          ~ThreeFields(cities_file[i]) /\ Trimmed(cities_file[i]) # <<>>
    /\ NumberOfNodes(G) = 3
    /\ <<"1">> \in Nodes(G)
    /\ <<"0", "1">> \in Nodes(G)
    /\ Len(network_file) = 2
    /\ \A i \in 1..2 : TwoTokens(network_file[i])
    /\ network_file[1] # network_file[2]
    /\ NumberOfEdges(G) = 1

\* the position of entry e in the list s
PosIn(s, e) == CHOOSE i \in 1..Len(s) : s[i] = e

\* C9: the top-10 list of solve_problem2_q3 and solve_problem2_q7 over a
\* largest component of n nodes has min(10, n) entries in non-increasing
\* order of the metric, no omitted node has a greater metric than a listed
\* one, and entries of equal metric keep the order of the unsorted list.
C9_TopTen ==
    (query \in {"q3", "q7"} /\ exc # "ValueError") =>
        LET n == Cardinality(largest_cc_nodeset) IN
        /\ Len(items) = n
        /\ {items[i].node : i \in 1..n} = largest_cc_nodeset
        /\ query = "q3" => \A i \in 1..n : items[i].num = Degree(G, items[i].node)
        /\ Len(top_10) = IF n < 10 THEN n ELSE 10
        /\ Range(top_10) \subseteq Range(items)
        /\ Cardinality(Range(top_10)) = Len(top_10)
        /\ \A i \in 1..(Len(top_10) - 1) : ValueGE(top_10[i], top_10[i + 1])
        /\ \A x \in Range(items) \ Range(top_10) :
              \A i \in 1..Len(top_10) : ~ValueGT(x, top_10[i])
        /\ \A i, j \in 1..Len(top_10) :
              (i < j /\ ValueGE(top_10[j], top_10[i])) =>
                  PosIn(items, top_10[i]) < PosIn(items, top_10[j])

C9_Witness ==
    /\ query = "q7"
    /\ Len(items) > 10
    /\ Len(top_10) = 10
    /\ top_10[1].num > 0
    /\ \E i \in 1..9 : top_10[i].num = top_10[i + 1].num
    /\ \E i \in 1..9 : top_10[i].num > top_10[i + 1].num
    /\ exc = "none"

\* C10: every node of the graph build_graph returns carries a code and a
\* city attribute, nodes that enter as endpoints of a network-file line
\* included, so that no city-name lookup of a query fails.
C10_AllNodesAttributed ==
    /\ pc \in {"built", "done"} =>
          \A n \in Nodes(G) : {"code", "city"} \subseteq DOMAIN G.attr[n]
    /\ exc # "KeyError"

====
